---- MODULE Spec2Model ----
(***************************************************************************)
(* A model of rusty_blockchain (src/main.rs): Transaction, Block and       *)
(* Blockchain, the demo script of main(), and the out-of-band mutation of  *)
(* an appended block that main() performs at line 318.                     *)
(*                                                                         *)
(* Strings are sequences of one-character strings, so that format!'s       *)
(* concatenation is modelled character by character.  Amounts are the      *)
(* integer-valued f64 values; "{}" prints those without a decimal point.   *)
(***************************************************************************)
EXTENDS Integers, Sequences, FiniteSets, TLC

VARIABLES
    chain,                  \* Blockchain.chain
    difficulty,             \* Blockchain.difficulty
    pending_transactions,   \* Blockchain.pending_transactions
    mining_reward,          \* Blockchain.mining_reward
    block,                  \* the local genesis_block / new_block being mined
    pc,                     \* position of the running Blockchain method
    now,                    \* last value read from Utc::now().timestamp()
    main_pc,                \* position of main() in its script; 0: another caller
    ret,                    \* what the last call returned / printed
    tampers                 \* history: the out-of-band mutations done so far

vars == <<chain, difficulty, pending_transactions, mining_reward, block, pc,
          now, main_pc, ret, tampers>>

(***************************************************************************)
(* Bounds of the model.                                                    *)
(***************************************************************************)
MaxCalls == 2       \* add_transaction and mine_pending_transactions calls made
                    \* by a caller other than main()

\* the values Utc::now().timestamp() returns, in seconds from the first read
Times == {0, 1}

\* the reads of the clock at or after time t
From(t) == {u \in Times : u >= t}

(***************************************************************************)
(* Text.                                                                   *)
(***************************************************************************)
Digits == <<"0", "1", "2", "3", "4", "5", "6", "7", "8", "9">>

HexDigits == Digits \o <<"a", "b", "c", "d", "e", "f">>

RECURSIVE NatToString(_)
NatToString(n) ==
    IF n < 10 THEN <<Digits[n + 1]>>
    ELSE NatToString(n \div 10) \o <<Digits[(n % 10) + 1]>>

\* "{}" of u64, i64, usize
IntToString(n) == IF n < 0 THEN <<"-">> \o NatToString(0 - n) ELSE NatToString(n)

\* The f64 values of the model: the integer-valued ones of magnitude below
\* Infinity, which f64 adds and subtracts exactly, and the three values
\* f64::INFINITY, f64::NEG_INFINITY (written 0 - Infinity) and f64::NAN.
Infinity == 1000000
NaN == 2000000

\* f64 negation
F64Neg(x) == IF x = NaN THEN NaN ELSE 0 - x

\* f64 addition
F64Add(x, y) ==
    IF x = NaN \/ y = NaN THEN NaN
    ELSE IF x \in {Infinity, 0 - Infinity}
         THEN IF y = 0 - x THEN NaN ELSE x
    ELSE IF y \in {Infinity, 0 - Infinity} THEN y
    ELSE x + y

\* f64 subtraction
F64Sub(x, y) == F64Add(x, F64Neg(y))

\* f64 ==, false whenever a side is NaN
F64Eq(x, y) == x # NaN /\ y # NaN /\ x = y

\* f64::is_finite
is_finite(x) == x # NaN /\ x # Infinity /\ x # 0 - Infinity

\* "{}" of an f64: 50.0 prints as 50, -45.0 as -45, the infinities as inf
\* and -inf, a NaN as NaN
F64ToString(x) ==
    IF x = NaN THEN <<"N", "a", "N">>
    ELSE IF x = Infinity THEN <<"i", "n", "f">>
    ELSE IF x = 0 - Infinity THEN <<"-", "i", "n", "f">>
    ELSE IntToString(x)

\* "0".repeat(n)
Repeat0(n) == [i \in 1..n |-> "0"]

\* str::starts_with
starts_with(s, prefix) ==
    /\ Len(prefix) <= Len(s)
    /\ SubSeq(s, 1, Len(prefix)) = prefix

RECURSIVE Join(_)
\* Vec<String>::join("")
Join(strs) == IF strs = <<>> THEN <<>> ELSE Head(strs) \o Join(Tail(strs))

System == <<"S", "y", "s", "t", "e", "m">>
Genesis == <<"G", "e", "n", "e", "s", "i", "s">>
Alice == <<"A", "l", "i", "c", "e">>
Bob == <<"B", "o", "b">>
Charlie == <<"C", "h", "a", "r", "l", "i", "e">>
Miner1 == <<"M", "i", "n", "e", "r", "1">>
Unknown == <<"U", "n", "k", "n", "o", "w", "n">>

(***************************************************************************)
(* The digest.  Sha256 is an external crate; all the program relies on is  *)
(* a deterministic, collision-free hex string whose leading digits vary    *)
(* with the input.  The model's digest is DigestLen hex digits computed    *)
(* from a checksum of the input         (the part the proof-of-work target *)
(* is compared with), then a mark, then the input itself, which stands for *)
(* the remaining digits and makes the digest collision-free.  The target   *)
(* is met by one checksum in DigestMod, so the nonce search is short.      *)
(***************************************************************************)
Alphabet ==
    Digits \o <<"-", "~", "a", "b", "c", "d", "e", "f", "A", "B", "C", "G",
                "M", "S", "U", "h", "i", "k", "l", "m", "n", "o", "r", "s",
                "t", "w", "y", "N">>

CharCode == [c \in {Alphabet[i] : i \in 1..Len(Alphabet)} |->
                (CHOOSE i \in 1..Len(Alphabet) : Alphabet[i] = c) - 1]

DigestLen == 4
DigestMod == 7

RECURSIVE Checksum(_, _, _)
\* the sum of the character codes of s[lo..hi], modulo DigestMod
Checksum(s, lo, hi) ==
    IF lo > hi THEN 0
    ELSE IF lo = hi THEN CharCode[s[lo]] % DigestMod
    ELSE LET mid == (lo + hi) \div 2
         IN  (Checksum(s, lo, mid) + Checksum(s, mid + 1, hi)) % DigestMod

RECURSIVE ToHex(_, _)
\* n in hexadecimal, zero-padded to `width' digits
ToHex(n, width) ==
    IF width = 0 THEN <<>>
    ELSE ToHex(n \div 16, width - 1) \o <<HexDigits[(n % 16) + 1]>>

\* Sha256::new(); update(data); format!("{:x}", finalize())
Sha256Hex(data) ==
    LET Digest(d) ==
            ToHex((Checksum(d, 1, Len(d)) * 2741) % (16 ^ DigestLen), DigestLen)
                \o <<"~">> \o d
    IN  CHOOSE h \in {Digest(d) : d \in {data}} : TRUE

\* mutant: sender and receiver are stored the other way round
TransactionNewSwapped(sender, receiver, amount, t) ==
    [sender |-> receiver, receiver |-> sender, amount |-> amount,
     timestamp |-> t]

(***************************************************************************)
(* Transaction                                                             *)
(***************************************************************************)
\* Transaction::new, with t the value Utc::now().timestamp() returns
TransactionNew(sender, receiver, amount, t) ==
    [sender |-> sender, receiver |-> receiver, amount |-> amount, timestamp |-> t]

\* mutant: the amount is left out of the canonical string
to_string_no_amount(tx) ==
    tx.sender \o tx.receiver \o IntToString(tx.timestamp)

\* Transaction::to_string
to_string(tx) ==
    tx.sender \o tx.receiver \o F64ToString(tx.amount) \o IntToString(tx.timestamp)

(***************************************************************************)
(* Block                                                                   *)
(***************************************************************************)
\* Block::calculate_hash
calculate_hash(b) ==
    LET transactions_str ==
            Join([i \in 1..Len(b.transactions) |-> to_string(b.transactions[i])])
        block_data ==
            IntToString(b.index) \o IntToString(b.timestamp) \o transactions_str
                \o b.previous_hash \o IntToString(b.nonce)
    IN  Sha256Hex(block_data)

\* mutant: the hash is left empty, block.hash = block.calculate_hash() missing
BlockNewNoHash(index, transactions, previous_hash, d, t) ==
    [index |-> index, timestamp |-> t, transactions |-> transactions,
     previous_hash |-> previous_hash, hash |-> <<>>, nonce |-> 0,
     difficulty |-> d]

\* mutant: blocks are numbered from 1
BlockNewOneBased(index, transactions, previous_hash, d, t) ==
    LET b == [index |-> index + 1, timestamp |-> t, transactions |-> transactions,
              previous_hash |-> previous_hash, hash |-> <<>>, nonce |-> 0,
              difficulty |-> d]
    IN  [b EXCEPT !.hash = calculate_hash(b)]

\* Block::new, with t the value Utc::now().timestamp() returns
BlockNew(index, transactions, previous_hash, d, t) ==
    LET b == [index |-> index, timestamp |-> t, transactions |-> transactions,
              previous_hash |-> previous_hash, hash |-> <<>>, nonce |-> 0,
              difficulty |-> d]
    IN  [b EXCEPT !.hash = calculate_hash(b)]

\* mutant: the target is one character short
TargetMetShort(b) ==
    b.difficulty = 0 \/ starts_with(b.hash, Repeat0(b.difficulty - 1))

\* mutant: the loop body runs once before the target is tested
TargetMetAfterFirst(b) ==
    b.nonce > 0 /\ starts_with(b.hash, Repeat0(b.difficulty))

\* the loop condition of Block::mine_block, negated
TargetMet(b) == starts_with(b.hash, Repeat0(b.difficulty))

\* mutant: the nonce advances by two per iteration
MineIterationSkip(b) ==
    LET b1 == [b EXCEPT !.nonce = b.nonce + 2]
    IN  [b1 EXCEPT !.hash = calculate_hash(b1)]

\* mutant: the hash is not recomputed after the increment
MineIterationStale(b) ==
    [b EXCEPT !.nonce = b.nonce + 1]

\* one iteration of the loop of Block::mine_block
MineIteration(b) ==
    LET b1 == [b EXCEPT !.nonce = b.nonce + 1]
    IN  [b1 EXCEPT !.hash = calculate_hash(b1)]

NoBlock == BlockNew(0, <<>>, <<>>, 0, 0)

(***************************************************************************)
(* Blockchain.  Rust indexes from 0, TLA+ sequences from 1: At(c, i) is    *)
(* c[i] of the source.                                                     *)
(***************************************************************************)
At(c, i) == c[i + 1]

RECURSIVE ValidFromLinkageFirst(_, _)
\* mutant: the previous hash is compared before the block's own hash
ValidFromLinkageFirst(c, i) ==
    IF i >= Len(c) THEN [valid |-> TRUE, index |-> 0, check |-> "none"]
    ELSE LET current_block == At(c, i)
             previous_block == At(c, i - 1)
         IN  IF current_block.previous_hash # previous_block.hash
                 THEN [valid |-> FALSE, index |-> i, check |-> "previous hash"]
             ELSE IF current_block.hash # calculate_hash(current_block)
                 THEN [valid |-> FALSE, index |-> i, check |-> "hash"]
             ELSE IF ~starts_with(current_block.hash, Repeat0(current_block.difficulty))
                 THEN [valid |-> FALSE, index |-> i, check |-> "proof of work"]
             ELSE ValidFromLinkageFirst(c, i + 1)

RECURSIVE ValidFrom(_, _)
\* the loop of Blockchain::is_chain_valid from index i on: whether it runs to
\* the end, and if not the index and the check named in the line it prints
ValidFrom(c, i) ==
    IF i >= Len(c) THEN [valid |-> TRUE, index |-> 0, check |-> "none"]
    ELSE LET current_block == At(c, i)
             previous_block == At(c, i - 1)
         IN  IF current_block.hash # calculate_hash(current_block)
                 THEN [valid |-> FALSE, index |-> i, check |-> "hash"]
             ELSE IF current_block.previous_hash # previous_block.hash
                 THEN [valid |-> FALSE, index |-> i, check |-> "previous hash"]
             ELSE IF ~starts_with(current_block.hash, Repeat0(current_block.difficulty))
                 THEN [valid |-> FALSE, index |-> i, check |-> "proof of work"]
             ELSE ValidFrom(c, i + 1)

\* Blockchain::is_chain_valid
is_chain_valid(c) == ValidFrom(c, 1)

RECURSIVE BalanceTxsElseIf(_, _, _)
\* mutant: the second test is an else-if of the first
BalanceTxsElseIf(txs, address, balance) ==
    IF txs = <<>> THEN balance
    ELSE LET tx == Head(txs)
             b1 == IF tx.sender = address THEN F64Sub(balance, tx.amount)
                   ELSE IF tx.receiver = address
                        THEN F64Add(balance, tx.amount)
                   ELSE balance
         IN  BalanceTxsElseIf(Tail(txs), address, b1)

RECURSIVE BalanceTxs(_, _, _)
\* the inner loop of Blockchain::get_balance
BalanceTxs(txs, address, balance) ==
    IF txs = <<>> THEN balance
    ELSE LET tx == Head(txs)
             b1 == IF tx.sender = address THEN F64Sub(balance, tx.amount)
                   ELSE balance
             b2 == IF tx.receiver = address THEN F64Add(b1, tx.amount) ELSE b1
         IN  BalanceTxs(Tail(txs), address, b2)

RECURSIVE BalanceBlocks(_, _, _)
\* the outer loop of Blockchain::get_balance
BalanceBlocks(c, address, balance) ==
    IF c = <<>> THEN balance
    ELSE BalanceBlocks(Tail(c), address,
                       BalanceTxs(Head(c).transactions, address, balance))

\* Blockchain::get_balance
get_balance(c, address) == BalanceBlocks(c, address, 0)

\* mutant: the first block instead of the last
get_first_block(c) == c[1]

\* Blockchain::get_latest_block, on a chain that is not empty
get_latest_block(c) == c[Len(c)]

\* mutant: the element is inserted at the front
PushFront(v, x) == <<x>> \o v

\* mutant: the element is dropped
PushNothing(v, x) == v

\* Vec::push
Push(v, x) == Append(v, x)

\* mutant: the genesis block carries the reward-sized transfer to "Genesis"
\* and an empty previous hash
genesis_block_other(d, t1, t2) ==
    LET genesis_tx == TransactionNew(System, Genesis, 100, t1)
    IN  BlockNew(0, <<genesis_tx>>, <<>>, d, t2)

\* the block create_genesis_block builds, with t1 and t2 the values the two
\* reads of the clock return
genesis_block(d, t1, t2) ==
    LET genesis_tx == TransactionNew(System, Genesis, 0, t1)
    IN  BlockNew(0, <<genesis_tx>>, <<"0">>, d, t2)

(***************************************************************************)
(* The last call and what it returned: is_chain_valid and get_balance fill *)
(* in their result, mine_pending_transactions its argument.  Every step    *)
(* that changes the chain replaces it, so a result in ret is about the     *)
(* current state.                                                          *)
(***************************************************************************)
NoRet ==
    [op |-> "none", valid |-> TRUE, index |-> 0, check |-> "none",
     address |-> <<>>, balance |-> 0]

(***************************************************************************)
(* Inputs of a caller other than main().                                   *)
(***************************************************************************)
Difficulties == {0, 1, 4}
Rewards == {100}
Addresses == {<<"A">>, <<"B">>}
Transfers ==
    { [sender |-> <<"A">>, receiver |-> <<"B">>, amount |-> 5],
      [sender |-> <<"B">>, receiver |-> <<"A">>, amount |-> -3],
      [sender |-> <<"A">>, receiver |-> <<"A">>, amount |-> 5] }
QueryAddresses == {<<"A">>, System, Unknown}

(***************************************************************************)
(* Blockchain::new: the struct is built with an empty chain, then          *)
(* create_genesis_block runs.  main() calls Blockchain::new(4, 100.0).     *)
(***************************************************************************)
Init ==
    /\ chain = <<>>
    /\ pending_transactions = <<>>
    /\ \/ main_pc = 0 /\ difficulty \in Difficulties /\ mining_reward \in Rewards
       \/ main_pc = 1 /\ difficulty = 4 /\ mining_reward = 100
    /\ block = NoBlock
    /\ pc = "create_genesis_block"
    /\ now = 0
    /\ ret = NoRet
    /\ tampers = <<>>

\* Blockchain::create_genesis_block up to the call of mine_block
CreateGenesisBlock ==
    /\ pc = "create_genesis_block"
    /\ \E t1 \in From(now) : \E t2 \in From(t1) :
          /\ block' = genesis_block(difficulty, t1, t2)
          /\ now' = t2
    /\ pc' = "mine_genesis"
    /\ UNCHANGED <<chain, difficulty, pending_transactions, mining_reward,
                   main_pc, ret, tampers>>

\* one iteration of the while loop of Block::mine_block
MineStep ==
    /\ pc \in {"mine_genesis", "mine_pending"}
    /\ ~TargetMet(block)
    /\ block' = MineIteration(block)
    /\ UNCHANGED <<chain, difficulty, pending_transactions, mining_reward, pc,
                   now, main_pc, ret, tampers>>

\* mine_block returns; create_genesis_block pushes the block
GenesisPush ==
    /\ pc = "mine_genesis"
    /\ TargetMet(block)
    /\ chain' = Push(chain, block)
    /\ block' = NoBlock
    /\ pc' = "idle"
    /\ UNCHANGED <<difficulty, pending_transactions, mining_reward, now,
                   main_pc, ret, tampers>>

\* mutant: the transaction is pushed twice
add_transaction_twice(transaction) ==
    /\ pc = "idle"
    /\ pending_transactions' =
          Push(Push(pending_transactions, transaction), transaction)
    /\ ret' = [NoRet EXCEPT !.op = "add_transaction"]
    /\ UNCHANGED <<chain, difficulty, mining_reward, block, pc, tampers>>

\* Blockchain::add_transaction
add_transaction(transaction) ==
    /\ pc = "idle"
    /\ pending_transactions' = Push(pending_transactions, transaction)
    /\ ret' = [NoRet EXCEPT !.op = "add_transaction"]
    /\ UNCHANGED <<chain, difficulty, mining_reward, block, pc, tampers>>

\* Blockchain::mine_pending_transactions up to the call of mine_block;
\* get_latest_block panics (unwrap of None) on an empty chain
mine_pending_transactions(miner_address) ==
    /\ pc = "idle"
    /\ \E t1 \in From(now) : \E t2 \in From(t1) :
          LET reward_tx == TransactionNew(System, miner_address, mining_reward, t1)
              pending == Push(pending_transactions, reward_tx)
          IN  /\ pending_transactions' = pending
              /\ IF chain = <<>>
                     THEN /\ pc' = "panicked"
                          /\ now' = t1
                          /\ block' = block
                     ELSE /\ pc' = "mine_pending"
                          /\ now' = t2
                          /\ block' = BlockNew(Len(chain), pending,
                                               get_latest_block(chain).hash,
                                               difficulty, t2)
    /\ ret' = [NoRet EXCEPT !.op = "mine_pending_transactions",
                            !.address = miner_address]
    /\ UNCHANGED <<chain, difficulty, mining_reward, tampers>>

\* mutant: the pending pool is not cleared after the push
MinePendingPushNoClear ==
    /\ pc = "mine_pending"
    /\ TargetMet(block)
    /\ chain' = Push(chain, block)
    /\ block' = NoBlock
    /\ pc' = "idle"
    /\ UNCHANGED <<difficulty, pending_transactions, mining_reward, now,
                   main_pc, ret, tampers>>

\* mine_block returns; mine_pending_transactions pushes the block and
\* replaces the pending pool by an empty one
MinePendingPush ==
    /\ pc = "mine_pending"
    /\ TargetMet(block)
    /\ chain' = Push(chain, block)
    /\ pending_transactions' = <<>>
    /\ block' = NoBlock
    /\ pc' = "idle"
    /\ UNCHANGED <<difficulty, mining_reward, now, main_pc, ret, tampers>>

\* mutant: is_chain_valid stores the recomputed hash in the block it rejects
IsChainValidCallRepair ==
    /\ pc = "idle"
    /\ LET r == is_chain_valid(chain)
       IN  /\ ret' = [NoRet EXCEPT !.op = "is_chain_valid", !.valid = r.valid,
                                   !.index = r.index, !.check = r.check]
           /\ chain' = IF r.valid THEN chain
                       ELSE [chain EXCEPT ![r.index + 1].hash =
                                             calculate_hash(At(chain, r.index))]
    /\ UNCHANGED <<difficulty, pending_transactions, mining_reward,
                   block, pc, now, tampers>>

\* a call of Blockchain::is_chain_valid
IsChainValidCall ==
    /\ pc = "idle"
    /\ LET r == is_chain_valid(chain)
       IN  ret' = [NoRet EXCEPT !.op = "is_chain_valid", !.valid = r.valid,
                                !.index = r.index, !.check = r.check]
    /\ UNCHANGED <<chain, difficulty, pending_transactions, mining_reward,
                   block, pc, now, tampers>>

\* a call of Blockchain::get_balance
GetBalanceCall(address) ==
    /\ pc = "idle"
    /\ ret' = [NoRet EXCEPT !.op = "get_balance", !.address = address,
                            !.balance = get_balance(chain, address)]
    /\ UNCHANGED <<chain, difficulty, pending_transactions, mining_reward,
                   block, pc, now, tampers>>

(***************************************************************************)
(* Out-of-band mutation of an appended block: the fields of Block and      *)
(* Transaction are plain struct fields, which code holding the Blockchain  *)
(* can assign, as main() does at line 318.                                 *)
(***************************************************************************)
\* c[i].transactions[j].amount = v
SetAmount(c, i, j, v) == [c EXCEPT ![i + 1].transactions[j + 1].amount = v]

\* the record kept of one mutation: the block, the field and, for a field of
\* a transaction, the transaction
Tamper(i, field, j) == [block |-> i, field |-> field, tx |-> j]

TamperAmounts == {1000}

\* some blocks that differ from b in one field
Tampered(b) ==
    {[b EXCEPT !.index = b.index + 1], [b EXCEPT !.timestamp = b.timestamp + 1],
     [b EXCEPT !.nonce = b.nonce + 1], [b EXCEPT !.previous_hash = b.hash],
     [b EXCEPT !.hash = b.previous_hash]}
        \cup {[b EXCEPT !.difficulty = v] : v \in Difficulties}

BlockFields ==
    {"index", "timestamp", "previous_hash", "hash", "nonce", "difficulty"}

\* a caller other than main() assigns one field of one appended block
TamperBlock ==
    /\ main_pc = 0
    /\ pc = "idle"
    /\ tampers = <<>>
    /\ \E i \in 0..(Len(chain) - 1) : \E b \in Tampered(At(chain, i)) :
       \E f \in BlockFields :
          /\ b[f] # At(chain, i)[f]
          /\ chain' = [chain EXCEPT ![i + 1] = b]
          /\ tampers' = Append(tampers, Tamper(i, f, 0))
    /\ ret' = NoRet
    /\ UNCHANGED <<difficulty, pending_transactions, mining_reward, block, pc,
                   now, main_pc>>

\* a caller other than main() assigns the amount of one transaction of one
\* appended block
TamperAmount ==
    /\ main_pc = 0
    /\ pc = "idle"
    /\ tampers = <<>>
    /\ \E i \in 0..(Len(chain) - 1) :
       \E j \in 0..(Len(At(chain, i).transactions) - 1) :
       \E v \in TamperAmounts :
          /\ v # At(chain, i).transactions[j + 1].amount
          /\ chain' = SetAmount(chain, i, j, v)
          /\ tampers' = Append(tampers, Tamper(i, "amount", j))
    /\ ret' = NoRet
    /\ UNCHANGED <<difficulty, pending_transactions, mining_reward, block, pc,
                   now, main_pc>>

(***************************************************************************)
(* A caller other than main(): any sequence of calls, within the bounds.   *)
(***************************************************************************)
RECURSIVE CountTransactions(_)
CountTransactions(c) ==
    IF c = <<>> THEN 0 ELSE Len(Head(c).transactions) + CountTransactions(Tail(c))

\* every add_transaction call has added one transaction, every
\* mine_pending_transactions call one reward transaction
CallsMade ==
    IF chain = <<>> THEN 0
    ELSE CountTransactions(Tail(chain)) + Len(pending_transactions)

Submit ==
    /\ main_pc = 0
    /\ CallsMade < MaxCalls
    /\ \E x \in Transfers : \E t \in From(now) :
          /\ add_transaction(TransactionNew(x.sender, x.receiver, x.amount, t))
          /\ now' = t
    /\ UNCHANGED main_pc

MinePending ==
    /\ main_pc = 0
    /\ CallsMade < MaxCalls
    /\ \E miner \in Addresses : mine_pending_transactions(miner)
    /\ UNCHANGED main_pc

IsChainValid ==
    /\ main_pc = 0
    /\ IsChainValidCall
    /\ UNCHANGED main_pc

GetBalance ==
    /\ main_pc = 0
    /\ \E address \in QueryAddresses : GetBalanceCall(address)
    /\ UNCHANGED main_pc

(***************************************************************************)
(* main(): the calls it makes on the Blockchain, in order.                 *)
(***************************************************************************)
MainScript ==
    << [op |-> "add_transaction", a |-> Alice, b |-> Bob, amount |-> 50],
       [op |-> "add_transaction", a |-> Bob, b |-> Charlie, amount |-> 25],
       [op |-> "mine_pending_transactions", a |-> Miner1, b |-> <<>>, amount |-> 0],
       [op |-> "add_transaction", a |-> Charlie, b |-> Alice, amount |-> 10],
       [op |-> "add_transaction", a |-> Alice, b |-> Miner1, amount |-> 5],
       [op |-> "mine_pending_transactions", a |-> Miner1, b |-> <<>>, amount |-> 0],
       [op |-> "get_balance", a |-> Alice, b |-> <<>>, amount |-> 0],
       [op |-> "get_balance", a |-> Bob, b |-> <<>>, amount |-> 0],
       [op |-> "get_balance", a |-> Charlie, b |-> <<>>, amount |-> 0],
       [op |-> "get_balance", a |-> Miner1, b |-> <<>>, amount |-> 0],
       [op |-> "is_chain_valid", a |-> <<>>, b |-> <<>>, amount |-> 0],
       [op |-> "tamper", a |-> <<>>, b |-> <<>>, amount |-> 1000],
       [op |-> "is_chain_valid", a |-> <<>>, b |-> <<>>, amount |-> 0] >>

MainAt(op) ==
    /\ main_pc \in 1..Len(MainScript)
    /\ MainScript[main_pc].op = op
    /\ main_pc' = main_pc + 1

MainAddTransaction ==
    /\ MainAt("add_transaction")
    /\ \E t \in From(now) :
          /\ add_transaction(TransactionNew(MainScript[main_pc].a,
                                            MainScript[main_pc].b,
                                            MainScript[main_pc].amount, t))
          /\ now' = t

MainMinePending ==
    /\ MainAt("mine_pending_transactions")
    /\ mine_pending_transactions(MainScript[main_pc].a)

MainGetBalance ==
    /\ MainAt("get_balance")
    /\ GetBalanceCall(MainScript[main_pc].a)

MainIsChainValid ==
    /\ MainAt("is_chain_valid")
    /\ IsChainValidCall

\* lines 317-318: if chain.len() > 1 { chain[1].transactions[0].amount = 1000.0 }
MainTamper ==
    /\ MainAt("tamper")
    /\ pc = "idle"
    /\ Len(chain) > 1
    /\ chain' = SetAmount(chain, 1, 0, MainScript[main_pc].amount)
    /\ tampers' = Append(tampers, Tamper(1, "amount", 0))
    /\ ret' = NoRet
    /\ UNCHANGED <<difficulty, pending_transactions, mining_reward, block, pc, now>>

Next ==
    \/ CreateGenesisBlock
    \/ MineStep
    \/ GenesisPush
    \/ MinePendingPush
    \/ Submit
    \/ MinePending
    \/ IsChainValid
    \/ GetBalance
    \/ TamperBlock
    \/ TamperAmount
    \/ MainAddTransaction
    \/ MainMinePending
    \/ MainGetBalance
    \/ MainIsChainValid
    \/ MainTamper

Spec == Init /\ [][Next]_vars

(***************************************************************************)
(* Callers that also submit an amount that is not finite: Transaction::new *)
(* takes any f64 and add_transaction validates nothing.                    *)
(***************************************************************************)
F64Transfers ==
    Transfers \cup
        { [sender |-> <<"A">>, receiver |-> <<"B">>, amount |-> Infinity] }

SubmitF64 ==
    /\ main_pc = 0
    /\ CallsMade < MaxCalls
    /\ \E x \in F64Transfers : \E t \in From(now) :
          /\ add_transaction(TransactionNew(x.sender, x.receiver, x.amount, t))
          /\ now' = t
    /\ UNCHANGED main_pc

InitF64 == Init /\ main_pc = 0

NextF64 ==
    \/ CreateGenesisBlock
    \/ MineStep
    \/ GenesisPush
    \/ MinePendingPush
    \/ SubmitF64
    \/ MinePending
    \/ GetBalance

SpecF64 == InitF64 /\ [][NextF64]_vars

(***************************************************************************)
(* Callers that rewrite more of the chain: a second block, the whole       *)
(* transaction list of a block, or a block together with its hash.         *)
(***************************************************************************)
\* a second assignment, to one field of a later block, after one to a block
\* other than the genesis block
TamperAgain ==
    /\ main_pc = 0
    /\ pc = "idle"
    /\ Len(tampers) = 1
    /\ tampers[1].field \in BlockFields
    /\ tampers[1].block >= 1
    /\ \E i \in 1..(Len(chain) - 1) : \E b \in Tampered(At(chain, i)) :
       \E f \in BlockFields :
          /\ i > tampers[1].block
          /\ b[f] # At(chain, i)[f]
          /\ chain' = [chain EXCEPT ![i + 1] = b]
          /\ tampers' = Append(tampers, Tamper(i, f, 0))
    /\ ret' = NoRet
    /\ UNCHANGED <<difficulty, pending_transactions, mining_reward, block, pc,
                   now, main_pc>>

\* the first two records of txs made one: the receiver of the new record is
\* the text from the first receiver up to the second receiver
MergeFirstTwo(txs) ==
    LET a == txs[1]
        b == txs[2]
    IN  <<[b EXCEPT !.sender = a.sender,
                    !.receiver = a.receiver \o F64ToString(a.amount)
                                    \o IntToString(a.timestamp)
                                    \o b.sender \o b.receiver]>>
            \o SubSeq(txs, 3, Len(txs))

\* some transaction lists other than txs
Replacements(txs) ==
    ( {SubSeq(txs, 1, Len(txs) - 1),
       Append(txs, txs[1]),
       [txs EXCEPT ![1].timestamp = txs[1].timestamp + 1],
       [txs EXCEPT ![1].sender = txs[1].receiver,
                   ![1].receiver = txs[1].sender],
       [txs EXCEPT ![1].sender = txs[1].sender \o txs[1].receiver,
                   ![1].receiver = <<>>]}
      \cup (IF Len(txs) >= 2 THEN {MergeFirstTwo(txs)} ELSE {}) ) \ {txs}

\* a caller assigns the transaction list of one appended block
TamperTransactions ==
    /\ main_pc = 0
    /\ pc = "idle"
    /\ tampers = <<>>
    /\ \E i \in 1..(Len(chain) - 1) :
       \E txs \in Replacements(At(chain, i).transactions) :
          /\ chain' = [chain EXCEPT ![i + 1].transactions = txs]
          /\ tampers' = Append(tampers, Tamper(i, "transactions", 0))
    /\ ret' = NoRet
    /\ UNCHANGED <<difficulty, pending_transactions, mining_reward, block, pc,
                   now, main_pc>>

\* a caller rewrites a block without mining it: a new amount, any
\* difficulty, and the hash calculate_hash gives for the rewritten block
ForgeBlock ==
    /\ main_pc = 0
    /\ pc = "idle"
    /\ tampers = <<>>
    /\ \E i \in 1..(Len(chain) - 1) :
       \E v \in TamperAmounts : \E d \in Difficulties :
          LET b1 == [At(chain, i) EXCEPT !.transactions[1].amount = v,
                                         !.difficulty = d]
              b2 == [b1 EXCEPT !.hash = calculate_hash(b1)]
          IN  /\ chain' = [chain EXCEPT ![i + 1] = b2]
              /\ tampers' = Append(tampers, Tamper(i, "forge", 0))
    /\ ret' = NoRet
    /\ UNCHANGED <<difficulty, pending_transactions, mining_reward, block, pc,
                   now, main_pc>>

InitTamper == Init /\ main_pc = 0

\* callers that mine, assign fields of up to two blocks or rewrite a block,
\* and validate
NextSeveral ==
    \/ CreateGenesisBlock
    \/ MineStep
    \/ GenesisPush
    \/ MinePendingPush
    \/ MinePending
    \/ IsChainValid
    \/ TamperBlock
    \/ TamperAgain
    \/ ForgeBlock

SpecSeveral == InitTamper /\ [][NextSeveral]_vars

\* callers that submit, mine, rewrite one block and validate
NextRewrite ==
    \/ CreateGenesisBlock
    \/ MineStep
    \/ GenesisPush
    \/ MinePendingPush
    \/ Submit
    \/ MinePending
    \/ IsChainValid
    \/ TamperTransactions
    \/ ForgeBlock

SpecRewrite == InitTamper /\ [][NextRewrite]_vars

(***************************************************************************)
(* Mining as a process that is never starved: mine_block's loop runs in    *)
(* the calling thread until its condition fails.  The difficulties include *)
(* one no hash can meet, and the nonce search is followed up to MaxNonce.  *)
(***************************************************************************)
MaxNonce == 12

\* more '0' characters than a digest has
Unmineable == DigestLen + 1

InitMining ==
    /\ chain = <<>>
    /\ pending_transactions = <<>>
    /\ main_pc = 0
    /\ difficulty \in Difficulties \cup {Unmineable}
    /\ mining_reward \in Rewards
    /\ block = NoBlock
    /\ pc = "create_genesis_block"
    /\ now = 0
    /\ ret = NoRet
    /\ tampers = <<>>

\* one iteration of mine_block's loop, up to MaxNonce
MineStepBounded ==
    /\ block.nonce < MaxNonce
    /\ MineStep

NextMining ==
    \/ CreateGenesisBlock
    \/ MineStepBounded
    \/ GenesisPush
    \/ MinePendingPush
    \/ Submit
    \/ MinePending

SpecMining ==
    /\ InitMining
    /\ [][NextMining]_vars
    /\ WF_vars(CreateGenesisBlock)
    /\ WF_vars(MineStepBounded)
    /\ WF_vars(GenesisPush)
    /\ WF_vars(MinePendingPush)

(***************************************************************************)
(* Properties.  Untampered: no out-of-band mutation has been done.         *)
(***************************************************************************)
Untampered == tampers = <<>>

RECURSIVE LeadingZeros(_)
\* the number of "0" characters s starts with
LeadingZeros(s) ==
    IF s = <<>> \/ Head(s) # "0" THEN 0 ELSE 1 + LeadingZeros(Tail(s))

\* the three conditions on the block at index i >= 1
HashCorrect(c, i) == At(c, i).hash = calculate_hash(At(c, i))
Linked(c, i) == At(c, i).previous_hash = At(c, i - 1).hash
ProofOfWork(c, i) == LeadingZeros(At(c, i).hash) >= At(c, i).difficulty

\* C1: after any sequence of add_transaction and mine_pending_transactions
\* calls on a freshly constructed Blockchain, with no out-of-band mutation,
\* is_chain_valid returns true, and every block at index >= 1 has
\* hash = calculate_hash(), previous_hash equal to the preceding block's hash
\* and a hash with at least `difficulty' leading "0" characters.
C1_ValidWithoutTampering ==
    (ret.op = "is_chain_valid" /\ Untampered) =>
        /\ ret.valid
        /\ \A i \in 1..(Len(chain) - 1) :
              HashCorrect(chain, i) /\ Linked(chain, i) /\ ProofOfWork(chain, i)

C1_Witness ==
    /\ ret.op = "is_chain_valid"
    /\ Untampered
    /\ ret.valid
    /\ Len(chain) = 3
    /\ main_pc = 0
    /\ difficulty = 4

\* the one mutation done so far assigned the amount of a transaction of a
\* block at index >= 1
OneAmountTampered ==
    /\ Len(tampers) = 1
    /\ tampers[1].field = "amount"
    /\ tampers[1].block >= 1

\* C2: on a chain of at least two blocks, changing the amount of one transfer
\* of a block at index i >= 1 to a different value, nothing else touched,
\* makes is_chain_valid return false and name index i; in main(), assigning
\* 1000 to chain[1].transactions[0].amount makes it return false and name 1.
C2_AmountTamperDetected ==
    /\ (ret.op = "is_chain_valid" /\ OneAmountTampered) =>
          (~ret.valid /\ ret.index = tampers[1].block)
    /\ main_pc = Len(MainScript) + 1 => (~ret.valid /\ ret.index = 1)

C2_Witness ==
    /\ main_pc = Len(MainScript) + 1
    /\ ret.op = "is_chain_valid"
    /\ At(chain, 1).transactions[1].amount = 1000
    /\ ~ret.valid
    /\ ret.index = 1

\* C3: after an out-of-band mutation that changes the value of any field of
\* any appended block, the genesis block included, is_chain_valid returns
\* false.
C3_AnyTamperDetected ==
    (ret.op = "is_chain_valid" /\ ~Untampered) => ~ret.valid

\* C4: a freshly constructed Blockchain, whatever the difficulty and the
\* reward, has exactly one block, with index 0, previous_hash "0" and a single
\* System -> Genesis transaction of amount 0, and an empty pending pool.
C4_Genesis ==
    [][(pc = "mine_genesis" /\ pc' = "idle") =>
          /\ Len(chain') = 1
          /\ chain'[1].index = 0
          /\ chain'[1].previous_hash = <<"0">>
          /\ Len(chain'[1].transactions) = 1
          /\ chain'[1].transactions[1].sender = System
          /\ chain'[1].transactions[1].receiver = Genesis
          /\ chain'[1].transactions[1].amount = 0
          /\ pending_transactions' = <<>>]_vars

C4_Witness ==
    /\ pc = "idle"
    /\ Len(chain) = 1
    /\ chain[1].nonce > 0
    /\ difficulty = 1
    /\ ret.op = "none"

\* C5: in every state reached by Blockchain::new followed by any sequence of
\* add_transaction, mine_pending_transactions, is_chain_valid and get_balance
\* calls, the chain is not empty once new has returned, and
\* get_latest_block's unwrap never panics.
C5_NeverEmpty ==
    /\ pc # "panicked"
    /\ pc \in {"idle", "mine_pending"} => Len(chain) >= 1

C5_Witness ==
    /\ pc = "mine_pending"
    /\ Len(chain) = 2
    /\ block.previous_hash = chain[2].hash

\* C6: the chain is append-only: in every step of an operation the chain of
\* before is a prefix of the chain of after, the step in which
\* mine_pending_transactions pushes the mined block lengthens it by exactly
\* one, and no step of add_transaction, is_chain_valid, get_balance or of the
\* mining loop changes it.
C6_AppendOnly ==
    [][tampers' = tampers =>
          /\ Len(chain') >= Len(chain)
          /\ SubSeq(chain', 1, Len(chain)) = chain
          /\ (pc = "mine_pending" /\ pc' = "idle") => Len(chain') = Len(chain) + 1
          /\ (pc = "mine_genesis" /\ pc' = "idle") => Len(chain') = Len(chain) + 1
          /\ ~(pc \in {"mine_pending", "mine_genesis"} /\ pc' = "idle")
                => chain' = chain]_vars

C6_Witness ==
    /\ Untampered
    /\ Len(chain) = 3
    /\ pc = "idle"
    /\ main_pc = 0

\* C7: linkage: in every state reached by new, add_transaction and
\* mine_pending_transactions, every block at index i >= 1 has previous_hash
\* equal to the final, mined hash of the block at index i - 1, and so has the
\* block being mined with respect to the last block.
C7_Linkage ==
    Untampered =>
        /\ \A i \in 1..(Len(chain) - 1) : Linked(chain, i)
        /\ pc = "mine_pending" => block.previous_hash = chain[Len(chain)].hash

C7_Witness ==
    /\ Untampered
    /\ Len(chain) = 3
    /\ At(chain, 1).nonce > 0
    /\ At(chain, 2).previous_hash = At(chain, 1).hash
    /\ At(chain, 2).previous_hash # At(chain, 0).hash

\* C8: proof of work: when mine_block returns (the loop condition is false),
\* and for every block of an untampered chain, the genesis block included,
\* the hash has at least `difficulty' leading "0" characters and equals
\* calculate_hash() of the block's final fields; for difficulty 0, 1 and 4.
C8_ProofOfWork ==
    /\ Untampered =>
          \A i \in 0..(Len(chain) - 1) :
              /\ ProofOfWork(chain, i)
              /\ HashCorrect(chain, i)
              /\ At(chain, i).difficulty = difficulty
    /\ pc \in {"mine_genesis", "mine_pending"} =>
          /\ block.hash = calculate_hash(block)
          /\ TargetMet(block) <=> LeadingZeros(block.hash) >= block.difficulty

C8_Witness ==
    /\ Untampered
    /\ difficulty = 4
    /\ Len(chain) = 2
    /\ At(chain, 0).nonce > 0
    /\ At(chain, 1).nonce > 0
    /\ LeadingZeros(At(chain, 1).hash) >= 4

\* the places <<i, j>> of the transactions of a chain
Positions(c) ==
    UNION {{<<i, j>> : j \in 1..Len(c[i].transactions)} : i \in 1..Len(c)}

RECURSIVE SumAmounts(_, _)
\* the sum of the amounts of the transactions at the places P
SumAmounts(c, P) ==
    IF P = {} THEN 0
    ELSE LET q == CHOOSE q \in P : TRUE
         IN  c[q[1]].transactions[q[2]].amount + SumAmounts(c, P \ {q})

Received(c, address) ==
    SumAmounts(c, {q \in Positions(c) :
                      c[q[1]].transactions[q[2]].receiver = address})

Sent(c, address) ==
    SumAmounts(c, {q \in Positions(c) :
                      c[q[1]].transactions[q[2]].sender = address})

C9_WitnessSelfTransfer ==
    /\ ret.op = "get_balance"
    /\ ret.address = <<"A">>
    /\ \E q \in Positions(chain) :
          /\ chain[q[1]].transactions[q[2]].sender = <<"A">>
          /\ chain[q[1]].transactions[q[2]].receiver = <<"A">>

\* C10: mine_pending_transactions(miner) builds a block whose index is the
\* number of blocks before the call, whose previous_hash is the hash of the
\* last block before the call, whose difficulty is the Blockchain's and whose
\* transactions are those pending before the call, in their order, followed
\* by one reward transaction System -> miner of amount mining_reward; mining
\* changes only its nonce and hash, and that block is what is appended.  So
\* chain[i].index = i in every state without out-of-band mutation.
C10_MinedBlock ==
    [][/\ (pc = "idle" /\ pc' = "mine_pending") =>
            LET n == Len(pending_transactions)
                txs == block'.transactions
            IN  /\ block'.index = Len(chain)
                /\ block'.previous_hash = chain[Len(chain)].hash
                /\ block'.difficulty = difficulty
                /\ block'.nonce = 0
                /\ Len(txs) = n + 1
                /\ SubSeq(txs, 1, n) = pending_transactions
                /\ txs[n + 1].sender = System
                /\ txs[n + 1].receiver = ret'.address
                /\ txs[n + 1].amount = mining_reward
                /\ ret'.op = "mine_pending_transactions"
       /\ (pc = "mine_pending" /\ pc' = "mine_pending") =>
            block' = [block EXCEPT !.nonce = block'.nonce, !.hash = block'.hash]
       /\ (pc = "mine_pending" /\ pc' = "idle") => chain' = Append(chain, block)
       /\ Untampered' =>
            \A i \in 0..(Len(chain') - 1) : At(chain', i).index = i]_vars

C10_Witness ==
    /\ Untampered
    /\ Len(chain) = 3
    /\ Len(At(chain, 1).transactions) = 3
    /\ At(chain, 1).transactions[1].sender = Alice
    /\ At(chain, 1).transactions[2].sender = Bob
    /\ At(chain, 1).transactions[3].receiver = Miner1
    /\ At(chain, 2).index = 2

\* the addresses named in the chain, in the pending pool or by the model's
\* callers
AllAddresses ==
    {chain[q[1]].transactions[q[2]].sender : q \in Positions(chain)}
        \cup {chain[q[1]].transactions[q[2]].receiver : q \in Positions(chain)}
        \cup Addresses \cup {System, Genesis, Alice, Bob, Charlie, Miner1, Unknown}

\* C11: add_transaction only queues: it appends the transaction at the end of
\* pending_transactions and leaves chain, difficulty and mining_reward as they
\* were, so is_chain_valid and get_balance of every address return after it
\* what they returned before it.
C11_SubmitOnlyQueues ==
    [][ret'.op = "add_transaction" =>
          /\ Len(pending_transactions') = Len(pending_transactions) + 1
          /\ SubSeq(pending_transactions', 1, Len(pending_transactions))
                = pending_transactions
          /\ chain' = chain
          /\ difficulty' = difficulty
          /\ mining_reward' = mining_reward
          /\ is_chain_valid(chain') = is_chain_valid(chain)
          /\ \A a \in AllAddresses :
                get_balance(chain', a) = get_balance(chain, a)]_vars

C11_Witness ==
    /\ ret.op = "add_transaction"
    /\ Len(pending_transactions) = 2
    /\ pending_transactions[1].sender = Charlie
    /\ pending_transactions[2].sender = Alice
    /\ Len(chain) = 2

\* C12: is_chain_valid and get_balance change nothing of the Blockchain
\* (chain, pending_transactions, difficulty, mining_reward), and
\* is_chain_valid called again with no mutation in between returns what it
\* returned, on an untampered and on a tampered chain.
C12_ReadOnlyIdempotent ==
    [][ret'.op \in {"is_chain_valid", "get_balance"} =>
          /\ chain' = chain
          /\ pending_transactions' = pending_transactions
          /\ difficulty' = difficulty
          /\ mining_reward' = mining_reward
          /\ ret'.op = "is_chain_valid" =>
                [valid |-> ret'.valid, index |-> ret'.index,
                 check |-> ret'.check] = is_chain_valid(chain')
          /\ ret'.op = "get_balance" =>
                ret'.balance = get_balance(chain', ret'.address)]_vars

C12_Witness ==
    /\ ret.op = "is_chain_valid"
    /\ ~ret.valid
    /\ ~Untampered
    /\ main_pc = 0
    /\ pending_transactions # <<>>

\* the transactions of the blocks of c from index i on, in chain order
RECURSIVE ChainTransactions(_, _)
ChainTransactions(c, i) ==
    IF i >= Len(c) THEN <<>>
    ELSE At(c, i).transactions \o ChainTransactions(c, i + 1)

\* every transaction the Blockchain holds after the genesis block: those of the
\* mined blocks, then the pending ones
Held(c, p) == ChainTransactions(c, 1) \o p

Mining == pc \in {"mine_genesis", "mine_pending"}

\* C16: no submitted transaction is lost or duplicated.  add_transaction adds
\* exactly the submitted transaction to what the Blockchain holds (mined
\* blocks then pending pool, as one sequence); mine_pending_transactions adds
\* exactly its reward transaction, its block takes the whole pending pool, and
\* its push moves that pool into the new block and leaves the pool empty, so a
\* transaction is in the pool or in exactly one block (the next one mined) and
\* a reward never reaches a later block; nothing else, short of a caller
\* writing into the chain, changes what is held.
C16_NoTransferLostOrDuplicated ==
    [][tampers' = tampers /\ chain # <<>> =>
          LET held  == Held(chain, pending_transactions)
              held1 == Held(chain', pending_transactions')
          IN  /\ pc = "idle" /\ pc' = "mine_pending" =>
                    /\ Len(held1) = Len(held) + 1
                    /\ SubSeq(held1, 1, Len(held)) = held
                    /\ held1[Len(held1)].sender = System
                    /\ held1[Len(held1)].receiver = ret'.address
                    /\ held1[Len(held1)].amount = mining_reward
                    /\ chain' = chain
                    /\ block'.transactions = pending_transactions'
              /\ pc = "mine_pending" /\ pc' = "idle" =>
                    /\ held1 = held
                    /\ pending_transactions' = <<>>
                    /\ Len(chain') = Len(chain) + 1
                    /\ chain'[Len(chain')].transactions = pending_transactions
              /\ pc' = pc /\ ret'.op = "add_transaction" =>
                    /\ Len(held1) = Len(held) + 1
                    /\ SubSeq(held1, 1, Len(held)) = held
                    /\ chain' = chain
              /\ pc' = pc /\ ret'.op # "add_transaction" =>
                    held1 = held]_vars

C16_Witness ==
    /\ Len(chain) = 3
    /\ pending_transactions = <<>>
    /\ pc = "idle"
    /\ ret.op = "mine_pending_transactions"
    /\ Len(chain[2].transactions) = 3
    /\ Len(chain[3].transactions) = 3
    /\ chain[2].transactions[3].sender = System
    /\ \A j \in 1..3 : chain[3].transactions[j] # chain[2].transactions[3]

\* C17: a block enters mining with nonce 0 and hash = calculate_hash; one
\* mining step adds 1 to the nonce, recomputes the hash and changes nothing
\* else, so hash = calculate_hash at every step; a block is pushed onto the
\* chain only when its hash meets its target, and is pushed as it is; no
\* operation of the Blockchain changes a block that is on the chain.
C17_BlockLifecycle ==
    [][/\ ~Mining /\ Mining' =>
              block'.nonce = 0 /\ block'.hash = calculate_hash(block')
       /\ Mining /\ Mining' =>
              /\ block'.hash = calculate_hash(block')
              /\ block' # block =>
                    /\ block'.nonce = block.nonce + 1
                    /\ [block' EXCEPT !.nonce = 0, !.hash = <<>>]
                          = [block EXCEPT !.nonce = 0, !.hash = <<>>]
                    /\ LeadingZeros(block.hash) < block.difficulty
                    /\ chain' = chain
       /\ Len(chain') # Len(chain) =>
              /\ Mining
              /\ chain' = Append(chain, block)
              /\ LeadingZeros(block.hash) >= block.difficulty
              /\ block.hash = calculate_hash(block)
       /\ tampers' = tampers =>
              \A i \in 1..Len(chain) : chain'[i] = chain[i]]_vars

C17_Witness ==
    /\ Untampered
    /\ pc = "idle"
    /\ Len(chain) >= 2
    /\ chain[Len(chain)].nonce >= 2

\* the hash the block b has when its nonce is n
HashWithNonce(b, n) == calculate_hash([b EXCEPT !.nonce = n])

\* C18: mine_block leaves the smallest nonce n >= 0 whose hash has at least
\* difficulty leading '0' characters; when the hash computed at construction
\* already has them (always so for difficulty 0) the nonce stays 0 and the
\* hash is the one computed at construction.
C18_SmallestNonce ==
    Untampered =>
        \A i \in 1..Len(chain) :
            LET b == chain[i]
            IN  /\ b.hash = HashWithNonce(b, b.nonce)
                /\ LeadingZeros(b.hash) >= b.difficulty
                /\ \A n \in 0..(b.nonce - 1) :
                      LeadingZeros(HashWithNonce(b, n)) < b.difficulty
                /\ b.difficulty = 0 => b.nonce = 0
                /\ LeadingZeros(HashWithNonce(b, 0)) >= b.difficulty
                      => b.nonce = 0

C18_Witness ==
    /\ Untampered
    /\ pc = "idle"
    /\ \E i \in 1..Len(chain) : chain[i].nonce >= 4

C18_WitnessNoIncrement ==
    /\ Untampered
    /\ Len(chain) = 2
    /\ difficulty = 1
    /\ chain[2].nonce = 0

\* the addresses that occur as sender or receiver in the chain
ChainAddresses(c) ==
    {c[q[1]].transactions[q[2]].sender : q \in Positions(c)}
        \cup {c[q[1]].transactions[q[2]].receiver : q \in Positions(c)}

RECURSIVE SumBalances(_, _)
\* the f64 sum of get_balance over the addresses A
SumBalances(c, A) ==
    IF A = {} THEN 0
    ELSE LET a == CHOOSE a \in A : TRUE
         IN  F64Add(get_balance(c, a), SumBalances(c, A \ {a}))

\* every amount in the chain is a finite f64
AmountsFinite(c) ==
    \A q \in Positions(c) : is_finite(c[q[1]].transactions[q[2]].amount)

\* the sum of the balances is 0 and System has paid one reward per mined block
Conserved(c) ==
    /\ F64Eq(SumBalances(c, ChainAddresses(c)), 0)
    /\ F64Eq(get_balance(c, System), F64Neg(mining_reward * (Len(c) - 1)))

\* C20 as stated: in every state reached by construction, add_transaction and
\* mine_pending_transactions, the balances of the addresses that occur in the
\* chain sum to 0 and get_balance("System") is minus mining_reward times the
\* number of blocks after the genesis block (no caller names "System").
C20_Conservation == chain # <<>> => Conserved(chain)

\* C20 amended: the same, for chains whose amounts are all finite
\* integer-valued f64 (whose sums f64 computes exactly).
C20_ConservationFinite ==
    chain # <<>> /\ AmountsFinite(chain) => Conserved(chain)

C20_Witness ==
    /\ Len(chain) = 2
    /\ AmountsFinite(chain)
    /\ Len(chain[2].transactions) = 2
    /\ get_balance(chain, <<"A">>) = 95
    /\ get_balance(chain, <<"B">>) = 5
    /\ get_balance(chain, System) = -100

\* the indexes after the genesis block at which one of the three checks fails
Bad(c) ==
    {i \in 1..(Len(c) - 1) :
        ~(HashCorrect(c, i) /\ Linked(c, i) /\ ProofOfWork(c, i))}

\* C13: is_chain_valid returns true exactly when every block at index >= 1
\* passes the three checks; when it returns false it reports the smallest
\* index at which a check fails, also when several blocks were written to, and
\* the check it reports is the first that fails there in the order hash,
\* previous hash, proof of work.
C13_FirstFailure ==
    ret.op = "is_chain_valid" =>
        /\ ret.valid <=> Bad(chain) = {}
        /\ ~ret.valid =>
              /\ ret.index \in Bad(chain)
              /\ \A k \in Bad(chain) : ret.index <= k
              /\ ret.check = IF ~HashCorrect(chain, ret.index) THEN "hash"
                             ELSE IF ~Linked(chain, ret.index)
                                  THEN "previous hash"
                             ELSE "proof of work"

C13_Witness ==
    /\ ret.op = "is_chain_valid"
    /\ ~ret.valid
    /\ Len(tampers) = 2
    /\ Bad(chain) = {1, 2}
    /\ ret.index = 1
    /\ ~HashCorrect(chain, 1) /\ ~Linked(chain, 1)

C13_WitnessLinkage ==
    /\ ret.op = "is_chain_valid"
    /\ ~ret.valid
    /\ ret.index = 2
    /\ ret.check = "previous hash"
    /\ HashCorrect(chain, 2)

\* C14 as stated: after the transaction list of a block at index >= 1 was
\* replaced by a different list, the stored hash left as it was, the block's
\* hash differs from calculate_hash and is_chain_valid returns false.
C14_ReplacedTransfersDetected ==
    /\ Len(tampers) = 1
    /\ tampers[1].field = "transactions"
    /\ ret.op = "is_chain_valid"
    => /\ ~HashCorrect(chain, tampers[1].block)
       /\ ~ret.valid

\* C15 as stated: after a caller rewrote a block at index >= 1 so that its
\* hash is calculate_hash of the rewritten block and every previous_hash still
\* matches, with fewer leading '0' characters in that hash than the
\* Blockchain's difficulty, is_chain_valid returns false.
C15_ForgedHashDetected ==
    /\ Len(tampers) = 1
    /\ tampers[1].field = "forge"
    /\ ret.op = "is_chain_valid"
    /\ HashCorrect(chain, tampers[1].block)
    /\ \A i \in 1..(Len(chain) - 1) : Linked(chain, i)
    /\ LeadingZeros(At(chain, tampers[1].block).hash) < difficulty
    => ~ret.valid

\* some nonce from the block's present one on gives a hash that meets the
\* block's target
Satisfiable(b) ==
    \E n \in b.nonce..MaxNonce :
        LeadingZeros(HashWithNonce(b, n)) >= b.difficulty

\* C19: mine_block, and with it Blockchain::new and mine_pending_transactions,
\* returns whenever some nonce from the starting one on gives a hash that
\* meets the target; the only way out of the loop is a hash that meets the
\* target, after which the block is pushed; with a difficulty no hash can meet
\* the search never returns and the block is never pushed.
C19_MiningTermination ==
    /\ (Mining /\ Satisfiable(block)) ~> (pc = "idle")
    /\ [][Mining /\ ~Mining' =>
             /\ LeadingZeros(block.hash) >= block.difficulty
             /\ chain' = Append(chain, block)]_vars
    /\ [](Mining /\ block.difficulty > DigestLen =>
             [](Mining /\ chain = <<>>))

C19_Witness ==
    /\ pc = "idle"
    /\ Len(chain) >= 2
    /\ chain[Len(chain)].nonce >= 4
    /\ chain[Len(chain)].difficulty = 4

C19_WitnessNeverReturns ==
    /\ Mining
    /\ difficulty = Unmineable
    /\ block.nonce = MaxNonce
    /\ chain = <<>>

\* every search for a difficulty a digest can meet ends before MaxNonce
C19_SearchWithinMaxNonce ==
    Mining /\ block.difficulty <= DigestLen => Satisfiable(block)

====
